---- MODULE Spec2Model ----
(***************************************************************************)
(* State-machine model of the three OMERO notebooks:                       *)
(*   - the micro-sam batch annotation notebook,                            *)
(*   - the StarDist segmentation notebook,                                 *)
(*   - the micro-sam training notebook (get_specific_table).               *)
(* A behaviour is one kernel session of one notebook: the cells run top to *)
(* bottom, an uncaught exception stops the run.  Calls into the OMERO      *)
(* server and the external libraries are recorded in call logs; their      *)
(* answers are chosen by the environment.                                  *)
(***************************************************************************)
EXTENDS Integers, Sequences, FiniteSets, TLC

VARIABLES
    notebook,           \* which notebook this kernel session runs
    pc,                 \* the cell (or loop step) that runs next
    runs,               \* number of top-to-bottom runs started in this kernel
    dotenvPassword,     \* PASSWORD entry of the .env file
    environPassword,    \* os.environ["PASSWORD"]
    prompted,           \* getpass was called by the last connection cell
    connection_status,  \* result of conn.connect()
    keepAliveCalls,     \* conn.c.enableKeepAlive(60) calls of this run
    connectCalls,       \* results of the conn.connect() calls of this run
    datatype,           \* notebook global
    data_id,            \* notebook global
    objExists,          \* the server holds the object datatype/data_id names
    getObjectCalls,     \* conn.getObject calls of the selection cell
    printCalls,         \* print_object_details calls of the selection cell
    cellError,          \* the exception that stopped the run
    trainingset_name,   \* notebook global (micro-sam)
    read_only_mode,     \* notebook global (micro-sam)
    local_output_dir,   \* notebook global (micro-sam)
    makedirsCalls,      \* os.makedirs calls of this run
    batchCalls,         \* process_omero_batch calls of this run
    job_id,             \* notebook global (StarDist)
    images,             \* notebook global (StarDist): ids of the image objects
    count,              \* loop index of the processing loop
    all_statistics_df,  \* measurement table of the current image
    plate_statistics,   \* list of the per-image tables
    stepLog,            \* ProcessImage / post_table steps of this run, in order
    postTableCalls,     \* ezomero.post_table calls of this run
    serverRois,         \* ROIs the server holds, of those findByImage answered
    deleteRequests,     \* conn.deleteObjects requests, each done or pending
    annotations,        \* file annotations of the dataset (training notebook)
    table,              \* notebook global (training)
    file_ann_id,        \* notebook global (training)
    printed             \* messages printed by get_specific_table

connVars == <<dotenvPassword, environPassword, prompted, connection_status,
              keepAliveCalls, connectCalls>>
selVars == <<datatype, data_id, objExists, getObjectCalls, printCalls>>
msVars == <<trainingset_name, read_only_mode, local_output_dir, makedirsCalls,
            batchCalls>>
delVars == <<serverRois, deleteRequests>>
sdVars == <<job_id, images, count, all_statistics_df, plate_statistics,
            stepLog, postTableCalls, delVars>>
trVars == <<annotations, table, file_ann_id, printed>>
vars == <<notebook, pc, runs, cellError, connVars, selVars, msVars, sdVars,
          trVars>>

----------------------------------------------------------------------------
(* Bounds of the model *)
MaxRuns == 2
MaxDataId == 2
MaxImageId == 2
MaxRows == 1
MaxAnns == 3
MaxRois == 1

Notebooks == {"microsam", "stardist", "training"}
Undefined == "<undefined>"
None == "None"
NoError == [type |-> "none", msg |-> ""]
NoneObj == [type |-> "NoneType", id |-> 0]
ValueError(msg) == [type |-> "ValueError", msg |-> msg]
AttributeError == [type |-> "AttributeError", msg |-> "NoneType"]
\* A Python value that may be None: None is the empty set, v is {v}
PyNone == {}
Some(v) == {v}
DataIds == 1..MaxDataId
ImageIds == 1..MaxImageId

\* Values of a PASSWORD entry: absent, empty, or a password
PasswordValues == {None, "", "secret"}

\* Python truthiness of os.environ.get("PASSWORD")
Truthy(v) == v # None /\ v # ""

----------------------------------------------------------------------------
Init ==
    /\ notebook \in Notebooks
    /\ pc = IF notebook = "stardist" THEN "setup" ELSE "connect"
    /\ runs = 1
    /\ IF notebook = "microsam"
       THEN dotenvPassword \in PasswordValues
       ELSE dotenvPassword = "secret"
    /\ environPassword = None
    /\ prompted = FALSE
    /\ connection_status = FALSE
    /\ keepAliveCalls = 0
    /\ connectCalls = <<>>
    /\ datatype = Undefined
    /\ data_id = 0
    /\ objExists = FALSE
    /\ getObjectCalls = <<>>
    /\ printCalls = <<>>
    /\ cellError = NoError
    /\ trainingset_name = Undefined
    /\ read_only_mode = FALSE
    /\ local_output_dir = Undefined
    /\ makedirsCalls = <<>>
    /\ batchCalls = <<>>
    /\ job_id = Undefined
    /\ images = <<>>
    /\ count = -1
    /\ all_statistics_df = <<>>
    /\ plate_statistics = <<>>
    /\ stepLog = <<>>
    /\ postTableCalls = <<>>
    /\ serverRois = {}
    /\ deleteRequests = <<>>
    /\ annotations = <<>>
    /\ table = PyNone
    /\ file_ann_id = PyNone
    /\ printed = <<>>

----------------------------------------------------------------------------
(* Connection cells *)

\* load_dotenv(override=True): an entry of .env with a value replaces the
\* environment's; an absent entry leaves the environment alone
LoadDotenv(env, dotenv) == IF dotenv # None THEN dotenv ELSE env

\* if not os.environ.get("PASSWORD"): os.environ["PASSWORD"] = getpass(...)
NeedsPrompt(env) == ~Truthy(env)

\* Mutant of KeepAliveAfter: the keep-alive is enabled only when connected
KeepAliveOnlyIfConnected(calls, status) ==
    IF status THEN calls + 1 ELSE calls

\* conn.c.enableKeepAlive(60) follows the if/else on connection_status: it is
\* called whatever the status
KeepAliveAfter(calls, status) == calls + 1

\* connection_status = conn.connect(); print the status;
\* conn.c.enableKeepAlive(60)
ConnectAndKeepAlive(next) ==
    /\ \E status \in BOOLEAN :
         /\ connection_status' = status
         /\ connectCalls' = Append(connectCalls, status)
         /\ keepAliveCalls' = KeepAliveAfter(keepAliveCalls, status)
    /\ pc' = next

MicrosamConnectionCell ==
    /\ notebook = "microsam"
    /\ pc = "connect"
    /\ LET loaded == LoadDotenv(environPassword, dotenvPassword) IN
         IF NeedsPrompt(loaded)
         THEN /\ prompted' = TRUE
              /\ \E typed \in {"", "secret"} : environPassword' = typed
         ELSE /\ prompted' = FALSE
              /\ environPassword' = loaded
    /\ ConnectAndKeepAlive("select")
    /\ UNCHANGED <<notebook, runs, cellError, dotenvPassword, selVars, msVars,
                   sdVars, trVars>>

\* conn = ezomero.connect(...) answers a gateway, or None when it could not
\* connect; conn.connect() on None is an AttributeError
StardistConnectionCell ==
    /\ notebook = "stardist"
    /\ pc = "connect"
    /\ environPassword' = LoadDotenv(environPassword, dotenvPassword)
    /\ \E gateway \in BOOLEAN :
         IF gateway
         THEN ConnectAndKeepAlive("select") /\ cellError' = NoError
         ELSE /\ cellError' = AttributeError
              /\ pc' = "error"
              /\ UNCHANGED <<connection_status, keepAliveCalls, connectCalls>>
    /\ UNCHANGED <<notebook, runs, dotenvPassword, prompted, selVars,
                   msVars, sdVars, trVars>>

TrainingConnectionCell ==
    /\ notebook = "training"
    /\ pc = "connect"
    /\ environPassword' = LoadDotenv(environPassword, dotenvPassword)
    /\ ConnectAndKeepAlive("select")
    /\ UNCHANGED <<notebook, runs, cellError, dotenvPassword, prompted, selVars,
                   msVars, sdVars, trVars>>

----------------------------------------------------------------------------
(* Container-selection cells *)

\* Values a user may give the datatype variable: the four the cells handle,
\* "screen" (documented for the micro-sam notebook) and one unknown value
DatatypeInputs == {"project", "plate", "dataset", "image", "screen", "well"}


\* Mutant of SelectBranch: a branch for "screen" is added to the chain
SelectBranchWithScreen(dt) ==
    IF dt = "project" THEN "Project"
    ELSE IF dt = "plate" THEN "Plate"
    ELSE IF dt = "dataset" THEN "Dataset"
    ELSE IF dt = "image" THEN "Image"
    ELSE IF dt = "screen" THEN "Screen"
    ELSE "invalid"

\* The if/elif chain on datatype: the OMERO type the branch looks up, or
\* "invalid" for the else branch
SelectBranch(dt) ==
    IF dt = "project" THEN "Project"
    ELSE IF dt = "plate" THEN "Plate"
    ELSE IF dt = "dataset" THEN "Dataset"
    ELSE IF dt = "image" THEN "Image"
    ELSE "invalid"

\* conn.getObject(type, id): the object, or None when the server has none
GetObject(exists, type, id) ==
    IF exists THEN [type |-> type, id |-> id] ELSE NoneObj

\* Mutant of IsNone: the None guard is missing
IsNoneNever(obj) == FALSE

\* `if <obj> is None`
IsNone(obj) == obj = NoneObj

\* f"{Type} with ID {data_id} not found"
NotFoundMsg(type, id) == type \o " with ID " \o ToString(id) \o " not found"

\* The validation chain shared by the micro-sam and the StarDist notebook
SelectionCell(next) ==
    \E dt \in DatatypeInputs, id \in DataIds, exists \in BOOLEAN :
        /\ datatype' = dt
        /\ data_id' = id
        /\ objExists' = exists
        /\ LET branch == SelectBranch(dt)
               obj == GetObject(exists, branch, id)
           IN  IF branch = "invalid"
               THEN /\ getObjectCalls' = getObjectCalls
                    /\ printCalls' = printCalls
                    /\ cellError' = ValueError("Invalid datatype specified")
                    /\ pc' = "error"
               ELSE /\ getObjectCalls' =
                           Append(getObjectCalls, [type |-> branch, id |-> id])
                    /\ IF IsNone(obj)
                       THEN /\ printCalls' = printCalls
                            /\ cellError' = ValueError(NotFoundMsg(branch, id))
                            /\ pc' = "error"
                       ELSE /\ printCalls' =
                                   Append(printCalls, [obj |-> obj, datatype |-> dt])
                            /\ cellError' = NoError
                            /\ pc' = next

MicrosamSelectCell ==
    /\ notebook = "microsam"
    /\ pc = "select"
    /\ SelectionCell("name")
    /\ UNCHANGED <<notebook, runs, connVars, msVars, sdVars, trVars>>

StardistSelectCell ==
    /\ notebook = "stardist"
    /\ pc = "select"
    /\ SelectionCell("imagelist")
    /\ UNCHANGED <<notebook, runs, connVars, msVars, sdVars, trVars>>

\* The training notebook looks the object up without a guard and prints its name
TrainingSelectCell ==
    /\ notebook = "training"
    /\ pc = "select"
    /\ \E dt \in DatatypeInputs, id \in DataIds, exists \in BOOLEAN :
        /\ datatype' = dt
        /\ data_id' = id
        /\ objExists' = exists
        /\ IF dt \in {"plate", "dataset", "image"}
           THEN /\ getObjectCalls' =
                       Append(getObjectCalls, [type |-> SelectBranch(dt), id |-> id])
                /\ IF IsNone(GetObject(exists, SelectBranch(dt), id))
                   THEN cellError' = AttributeError /\ pc' = "error"
                   ELSE cellError' = NoError /\ pc' = "table"
           ELSE /\ getObjectCalls' = getObjectCalls
                /\ cellError' = NoError
                /\ pc' = "table"
    /\ UNCHANGED <<notebook, runs, connVars, printCalls, msVars, sdVars, trVars>>

----------------------------------------------------------------------------
(* micro-sam annotation notebook: training-set name, configuration, batch *)

NameInputs == {"", "training_data_20240529"}

MicrosamNameCell ==
    /\ notebook = "microsam"
    /\ pc = "name"
    /\ \E name \in NameInputs : trainingset_name' = name
    /\ pc' = "config"
    /\ UNCHANGED <<notebook, runs, cellError, connVars, selVars, read_only_mode,
                   local_output_dir, makedirsCalls, batchCalls, sdVars, trVars>>

\* Mutant of LocalOutputDir: the name is used whatever read_only_mode is
LocalOutputDirAlwaysNamed(readOnly, name) ==
    IF name # ""
    THEN "./omero_annotations_" \o name
    ELSE "./omero_annotations"

\* local_output_dir = "./omero_annotations", replaced in read-only mode when
\* trainingset_name is truthy
LocalOutputDir(readOnly, name) ==
    IF readOnly /\ name # ""
    THEN "./omero_annotations_" \o name
    ELSE "./omero_annotations"

\* if read_only_mode: ... os.makedirs(local_output_dir, exist_ok=True)
MakedirsAfter(calls, readOnly, dir) ==
    IF readOnly THEN Append(calls, dir) ELSE calls

\* get_images_from_container is called first and may raise; then the
\* configuration variables are set
MicrosamConfigCell ==
    /\ notebook = "microsam"
    /\ pc = "config"
    /\ \E fetched \in BOOLEAN :
         IF ~fetched
         THEN /\ cellError' = [type |-> "Exception", msg |-> "get_images_from_container"]
              /\ pc' = "error"
              /\ UNCHANGED <<read_only_mode, local_output_dir, makedirsCalls>>
         ELSE \E readOnly \in BOOLEAN :
              /\ read_only_mode' = readOnly
              /\ local_output_dir' = LocalOutputDir(readOnly, trainingset_name)
              /\ makedirsCalls' =
                     MakedirsAfter(makedirsCalls, readOnly, local_output_dir')
              /\ cellError' = NoError
              /\ pc' = "batch"
    /\ UNCHANGED <<notebook, runs, connVars, selVars, trainingset_name,
                   batchCalls, sdVars, trVars>>

\* The arguments of process_omero_batch the model follows
BatchArgs ==
    [datatype |-> datatype, data_id |-> data_id,
     read_only_mode |-> read_only_mode,
     local_output_dir |-> local_output_dir,
     trainingset_name |-> trainingset_name]

MicrosamBatchCell ==
    /\ notebook = "microsam"
    /\ pc = "batch"
    /\ batchCalls' = Append(batchCalls, BatchArgs)
    /\ \E returned \in BOOLEAN :
         IF returned
         THEN cellError' = NoError /\ pc' = "done"
         ELSE /\ cellError' = [type |-> "Exception", msg |-> "process_omero_batch"]
              /\ pc' = "error"
    /\ UNCHANGED <<notebook, runs, connVars, selVars, trainingset_name,
                   read_only_mode, local_output_dir, makedirsCalls, sdVars,
                   trVars>>

\* The notebook is run again from the connection cell in the same kernel: the
\* globals and os.environ stay, the call logs start afresh
MicrosamRerun ==
    /\ notebook = "microsam"
    /\ pc \in {"done", "error"}
    /\ runs < MaxRuns
    /\ runs' = runs + 1
    /\ pc' = "connect"
    /\ cellError' = NoError
    /\ keepAliveCalls' = 0
    /\ connectCalls' = <<>>
    /\ getObjectCalls' = <<>>
    /\ printCalls' = <<>>
    /\ makedirsCalls' = <<>>
    /\ batchCalls' = <<>>
    /\ UNCHANGED <<notebook, dotenvPassword, environPassword, prompted,
                   connection_status, datatype, data_id, objExists,
                   trainingset_name, read_only_mode, local_output_dir, sdVars,
                   trVars>>

----------------------------------------------------------------------------
(* StarDist notebook: job id, image list, processing loop *)

\* str(datetime.datetime.now().strftime("%Y%m%d%H%M%S"))
JobIds == {"20240529101500"}

StardistSetupCell ==
    /\ notebook = "stardist"
    /\ pc = "setup"
    /\ \E job \in JobIds : job_id' = job
    /\ pc' = "connect"
    /\ UNCHANGED <<notebook, runs, cellError, connVars, selVars, msVars, images,
                   count, all_statistics_df, plate_statistics, stepLog,
                   postTableCalls, trVars, delVars>>

RECURSIVE DistinctSeqsOfLen(_, _)
DistinctSeqsOfLen(S, n) ==
    IF n = 0 THEN {<<>>}
    ELSE {Append(q, x) : q \in DistinctSeqsOfLen(S, n - 1), x \in S} \cap
         {q \in [1..n -> S] : \A i, j \in 1..n : i # j => q[i] # q[j]}

\* The id lists ezomero.get_image_ids may answer: the ids of a container's
\* images, each once, in any order
ImageIdLists == UNION {DistinctSeqsOfLen(ImageIds, n) : n \in 0..Cardinality(ImageIds)}

\* images by datatype; the image objects are followed by their ids
StardistImageListCell ==
    /\ notebook = "stardist"
    /\ pc = "imagelist"
    /\ IF datatype \in {"plate", "dataset", "project"}
       THEN \E ids \in ImageIdLists : images' = ids
       ELSE IF datatype = "image"
       THEN images' = <<data_id>>
       ELSE images' = images
    /\ pc' = "loop"
    /\ UNCHANGED <<notebook, runs, cellError, connVars, selVars, msVars, job_id,
                   count, all_statistics_df, plate_statistics, stepLog,
                   postTableCalls, trVars, delVars>>

\* The image of the current iteration: `image` of enumerate(images)
CurrentImage == images[count + 1]

\* Mutant of Raise: the exception is caught and the loop goes on with the
\* next image
RaiseAndContinue(where) ==
    /\ cellError' = [type |-> "Exception", msg |-> where]
    /\ pc' = "iter"

\* A library call of the loop raised: the cell stops there
Raise(where) ==
    /\ cellError' = [type |-> "Exception", msg |-> where]
    /\ pc' = "error"

\* plate_statistics = []; the loop starts
StardistLoopStart ==
    /\ notebook = "stardist"
    /\ pc = "loop"
    /\ plate_statistics' = <<>>
    /\ count' = -1
    /\ pc' = "iter"
    /\ UNCHANGED <<notebook, runs, cellError, connVars, selVars, msVars, job_id,
                   images, all_statistics_df, stepLog, postTableCalls, trVars, delVars>>

\* for count, image in enumerate(images): print; ProcessImage(conn, image, ...)
StardistLoopHead ==
    /\ notebook = "stardist"
    /\ pc = "iter"
    /\ IF count + 1 < Len(images)
       THEN /\ count' = count + 1
            /\ \E ok \in BOOLEAN :
                 IF ok
                 THEN /\ stepLog' = Append(stepLog,
                              [step |-> "ProcessImage", image |-> images[count' + 1]])
                      /\ pc' = "segment"
                      /\ cellError' = NoError
                 ELSE Raise("ProcessImage") /\ stepLog' = stepLog
       ELSE /\ pc' = "aggregate"
            /\ UNCHANGED <<count, stepLog, cellError>>
    /\ UNCHANGED <<notebook, runs, connVars, selVars, msVars, job_id, images,
                   all_statistics_df, plate_statistics, postTableCalls, trVars, delVars>>

\* One call on img that writes nothing the model follows but its completion
LoopStep(at, name, next) ==
    /\ notebook = "stardist"
    /\ pc = at
    /\ \E ok \in BOOLEAN :
         IF ok
         THEN /\ stepLog' = Append(stepLog, [step |-> name, image |-> CurrentImage])
              /\ pc' = next
              /\ cellError' = NoError
         ELSE Raise(name) /\ stepLog' = stepLog
    /\ UNCHANGED <<notebook, runs, connVars, selVars, msVars, job_id, images,
                   count, all_statistics_df, plate_statistics, postTableCalls,
                   trVars, delVars>>

\* Mutant of StardistSegment: the ROIs are saved before the attachment
StardistSegmentThenRoi == LoopStep("segment", "segment_nuclei", "roi")

StardistSegment == LoopStep("segment", "segment_nuclei", "attach")

StardistSaveAttach ==
    LoopStep("attach", "save_segmentation_to_omero_as_attach", "roi")

StardistSaveRoi ==
    LoopStep("roi", "save_segmentation_to_omero_as_roi", "measure")

\* img.get_measurements_to_df(): one row per nucleus of the image measured
MeasurementsDf(image, rows) ==
    [j \in 1..rows |-> [label |-> j, measuredOn |-> image]]

\* df[column] = value for the imageID column: every row gets the value
SetImageID(df, value) ==
    [j \in 1..Len(df) |-> [imageID |-> value] @@ df[j]]

\* measure_intensity; get_measurements_to_df; the imageID column;
\* plate_statistics.append
StardistMeasure ==
    /\ notebook = "stardist"
    /\ pc = "measure"
    /\ \E ok \in BOOLEAN :
         IF ok
         THEN \E rows \in 0..MaxRows :
              /\ all_statistics_df' =
                     SetImageID(MeasurementsDf(CurrentImage, rows), CurrentImage)
              /\ plate_statistics' = Append(plate_statistics, all_statistics_df')
              /\ stepLog' = Append(stepLog,
                     [step |-> "measure_intensity", image |-> CurrentImage])
              /\ pc' = "post"
              /\ cellError' = NoError
         ELSE /\ Raise("measure_intensity")
              /\ UNCHANGED <<all_statistics_df, plate_statistics, stepLog>>
    /\ UNCHANGED <<notebook, runs, connVars, selVars, msVars, job_id, images,
                   count, postTableCalls, trVars, delVars>>

\* f"Nuclei_measurements_{job_id}_{id}"
TableTitle(job, id) == "Nuclei_measurements_" \o job \o "_" \o ToString(id)

\* Mutant of ImageTablePost: the table is attached to data_id
ImageTablePostOnDataId ==
    [object_type |-> "Image", object_id |-> data_id,
     table |-> all_statistics_df, title |-> TableTitle(job_id, data_id)]

\* The per-image ezomero.post_table call
ImageTablePost ==
    [object_type |-> "Image", object_id |-> CurrentImage,
     table |-> all_statistics_df, title |-> TableTitle(job_id, CurrentImage)]

StardistPostImageTable ==
    /\ notebook = "stardist"
    /\ pc = "post"
    /\ \E ok \in BOOLEAN :
         IF ok
         THEN /\ postTableCalls' = Append(postTableCalls, ImageTablePost)
              /\ stepLog' = Append(stepLog,
                     [step |-> "post_table", image |-> CurrentImage])
              /\ pc' = "iter"
              /\ cellError' = NoError
         ELSE Raise("post_table") /\ UNCHANGED <<postTableCalls, stepLog>>
    /\ UNCHANGED <<notebook, runs, connVars, selVars, msVars, job_id, images,
                   count, all_statistics_df, plate_statistics, trVars, delVars>>

RECURSIVE Concat(_)

\* Mutant of Concat: the frames are joined last to first
ConcatReversed(frames) ==
    IF frames = <<>> THEN <<>> ELSE Concat(Tail(frames)) \o Head(frames)

\* pd.concat(frames, ignore_index=True): the rows of the frames in list order
Concat(frames) ==
    IF frames = <<>> THEN <<>> ELSE Head(frames) \o Concat(Tail(frames))

\* The ezomero.post_table call after the loop
AggregateTablePost ==
    [object_type |-> "Dataset", object_id |-> data_id,
     table |-> Concat(plate_statistics), title |-> TableTitle(job_id, data_id)]

\* pd.concat raises ValueError on an empty list
StardistAggregate ==
    /\ notebook = "stardist"
    /\ pc = "aggregate"
    /\ IF plate_statistics = <<>>
       THEN /\ cellError' = ValueError("No objects to concatenate")
            /\ pc' = "error"
            /\ UNCHANGED <<postTableCalls, stepLog>>
       ELSE \E ok \in BOOLEAN :
            IF ok
            THEN /\ postTableCalls' = Append(postTableCalls, AggregateTablePost)
                 /\ stepLog' = Append(stepLog,
                        [step |-> "post_table_aggregate", image |-> 0])
                 /\ pc' = "done"
                 /\ cellError' = NoError
            ELSE /\ Raise("post_table_aggregate")
                 /\ UNCHANGED <<postTableCalls, stepLog>>
    /\ UNCHANGED <<notebook, runs, connVars, selVars, msVars, job_id, images,
                   count, all_statistics_df, plate_statistics, trVars, delVars>>

----------------------------------------------------------------------------
(* StarDist notebook: the cells that delete attachments and ROIs.  They are  *)
(* run in a session that has connected and run the selection cell; they read *)
(* the `dataset` object that cell binds in its dataset branch.               *)

\* datatype and data_id as the two cells assign them
CleanupDataId == 502

NameError(name) == [type |-> "NameError", msg |-> name]

\* `dataset` is bound only by the dataset branch of the selection cell
DatasetBound == datatype = "dataset"

Range(seq) == {seq[i] : i \in DOMAIN seq}

\* ann.link.id as the cell reads it: falsy, a list of ids, or a single id
LinkIdKinds == {"falsy", "list", "single"}

\* ensure_list(obj)
ensure_list(obj) ==
    IF obj.kind = "falsy" THEN <<>>
    ELSE IF obj.kind = "list" THEN obj.val
    ELSE <<obj.val>>

\* The link id of the annotation of an image, in the form `kind`
LinkIdOf(image, kind) ==
    LET lid == [image |-> image, link |-> 1] IN
    [kind |-> kind, val |-> IF kind = "list" THEN <<lid>> ELSE lid]

\* to_delete: the link ids of the annotations of the images, in image order;
\* anns maps each image that has an annotation to the form of its link id
RECURSIVE LinkIds(_, _)
LinkIds(imgs, anns) ==
    IF imgs = <<>> THEN <<>>
    ELSE (IF Head(imgs) \in DOMAIN anns
          THEN ensure_list(LinkIdOf(Head(imgs), anns[Head(imgs)]))
          ELSE <<>>) \o LinkIds(Tail(imgs), anns)

\* conn.deleteObjects(graph, ids, wait=wait): the request is submitted; with
\* wait=True the call returns when the server has carried it out
DeleteObjects(requests, graph, ids, wait) ==
    Append(requests, [graph |-> graph, ids |-> ids, wait |-> wait, done |-> wait])

\* count after `for count in range(n)`
CountAfterRange(old, n) == IF n = 0 THEN old ELSE n - 1

\* Delete attachments cell: one request for all the links, waited for
StardistDeleteAttachmentsCell ==
    /\ notebook = "stardist"
    /\ pc = "imagelist"
    /\ datatype' = "dataset"
    /\ data_id' = CleanupDataId
    /\ IF ~DatasetBound
       THEN /\ cellError' = NameError("dataset")
            /\ pc' = "error"
            /\ UNCHANGED <<images, count, plate_statistics, deleteRequests>>
       ELSE \E ids \in ImageIdLists, ok \in BOOLEAN :
            \E annotated \in SUBSET Range(ids) :
            \E linked \in [annotated -> LinkIdKinds] :
            /\ images' = ids
            /\ plate_statistics' = <<>>
            /\ count' = CountAfterRange(count, Len(ids))
            /\ IF ok
               THEN /\ deleteRequests' =
                          DeleteObjects(deleteRequests, "ImageAnnotationLink",
                                        LinkIds(ids, linked), TRUE)
                    /\ cellError' = NoError
                    /\ pc' = "delete_rois"
               ELSE /\ Raise("deleteObjects")
                    /\ UNCHANGED deleteRequests
    /\ UNCHANGED <<notebook, runs, connVars, objExists, getObjectCalls,
                   printCalls, msVars, job_id, all_statistics_df, stepLog,
                   postTableCalls, serverRois, trVars>>

\* Delete ROIs cell, up to the loop: run after the attachments cell or on its
\* own
StardistDeleteRoisStart ==
    /\ notebook = "stardist"
    /\ pc \in {"imagelist", "delete_rois"}
    /\ datatype' = "dataset"
    /\ data_id' = CleanupDataId
    /\ IF ~DatasetBound
       THEN /\ cellError' = NameError("dataset")
            /\ pc' = "error"
            /\ UNCHANGED <<images, count, plate_statistics>>
       ELSE /\ IF pc = "imagelist"
               THEN \E ids \in ImageIdLists : images' = ids
               ELSE images' = images
            /\ plate_statistics' = <<>>
            /\ count' = -1
            /\ cellError' = NoError
            /\ pc' = "roi_scan"
    /\ UNCHANGED <<notebook, runs, connVars, objExists, getObjectCalls,
                   printCalls, msVars, job_id, all_statistics_df, stepLog,
                   postTableCalls, delVars, trVars>>

\* The ROIs findByImage answers for an image that has n of them
RoisOf(image, n) == [j \in 1..n |-> [image |-> image, roi |-> j]]

\* The wait argument of the ROI cell's deleteObjects call: not given, and the
\* parameter defaults to False
RoiDeleteWait == FALSE

\* One iteration: findByImage, roi_ids, conn.deleteObjects("Roi", roi_ids)
StardistDeleteRoisIter ==
    /\ notebook = "stardist"
    /\ pc = "roi_scan"
    /\ IF count + 1 < Len(images)
       THEN /\ count' = count + 1
            /\ \E n \in 0..MaxRois, ok \in BOOLEAN :
                 LET roi_ids == RoisOf(images[count' + 1], n) IN
                 /\ serverRois' = serverRois \cup Range(roi_ids)
                 /\ IF ok
                    THEN /\ deleteRequests' =
                               DeleteObjects(deleteRequests, "Roi", roi_ids,
                                             RoiDeleteWait)
                         /\ cellError' = NoError
                         /\ pc' = "roi_scan"
                    ELSE /\ Raise("deleteObjects")
                         /\ UNCHANGED deleteRequests
       ELSE /\ pc' = "finished"
            /\ UNCHANGED <<count, cellError, delVars>>
    /\ UNCHANGED <<notebook, runs, connVars, selVars, msVars, job_id, images,
                   all_statistics_df, plate_statistics, stepLog, postTableCalls,
                   trVars>>

\* The server carries out a pending delete request
ServerCompletesDelete ==
    /\ notebook = "stardist"
    /\ \E i \in DOMAIN deleteRequests :
        /\ ~deleteRequests[i].done
        /\ deleteRequests' = [deleteRequests EXCEPT ![i].done = TRUE]
        /\ serverRois' = serverRois \ Range(deleteRequests[i].ids)
    /\ UNCHANGED <<notebook, pc, runs, cellError, connVars, selVars, msVars,
                   job_id, images, count, all_statistics_df, plate_statistics,
                   stepLog, postTableCalls, trVars>>

----------------------------------------------------------------------------
(* Training notebook: get_specific_table *)

TableName == "micro_sam_training_data"
FileNames == {TableName, "other.csv"}

\* What the server holds for one file annotation id: whether
\* conn.getObject("FileAnnotation", id) answers an object, the name of its
\* original file, and whether ezomero.get_table loads it or raises
AnnotationKinds ==
    {[exists |-> FALSE, name |-> "", loads |-> FALSE]} \cup
    [exists : {TRUE}, name : FileNames, loads : BOOLEAN]

\* The lists ezomero.get_file_annotation_ids may answer, with the server's
\* state of each id: n distinct ids, ascending or descending
AnnotationLists ==
    UNION {
        {[i \in 1..n |-> [id |-> i] @@ kinds[i]] : kinds \in [1..n -> AnnotationKinds]}
        \cup
        {[i \in 1..n |-> [id |-> n + 1 - i] @@ kinds[i]] : kinds \in [1..n -> AnnotationKinds]}
        : n \in 0..MaxAnns}

\* The table ezomero.get_table answers for a file annotation
TableOf(annId) == [file_ann_id |-> annId]

\* ann = conn.getObject("FileAnnotation", ann_id); `if ann is None`
AnnIsNone(ann) == ~ann.exists

\* Mutant of NameMatches: the file name is not compared
NameMatchesAny(ann, name) == TRUE

\* orig_file.getName() == table_name
NameMatches(ann, name) == ann.name = name

\* try: ezomero.get_table(conn, ann_id) ... except Exception
LoadRaises(ann) == ~ann.loads

\* print(f"Found file {table_name} but failed to load as table: {e}")
FailedToLoadMsg(name, annId) ==
    "Found file " \o name \o " but failed to load as table: " \o ToString(annId)

\* The result of get_specific_table: the pair it returns (or the exception
\* that left it) and the messages it printed
Result(tbl, annId, out, err) ==
    [table |-> tbl, ann_id |-> annId, printed |-> out, error |-> err]

RECURSIVE SearchFrom(_, _, _, _)

\* Mutant of OnLoadFailure: the message is printed and the search ends
OnLoadFailureStops(anns, name, i, out) ==
    Result(PyNone, PyNone, Append(out, FailedToLoadMsg(name, anns[i].id)), NoError)

\* except Exception as e: print(...); continue
OnLoadFailure(anns, name, i, out) ==
    SearchFrom(anns, name, i + 1,
               Append(out, FailedToLoadMsg(name, anns[i].id)))

\* The for loop of get_specific_table from position i on; out are the messages
\* printed so far.  ann.getFile() on None is an AttributeError.
SearchFrom(anns, name, i, out) ==
    IF i > Len(anns)
    THEN Result(PyNone, PyNone, out, NoError)
    ELSE LET ann == anns[i] IN
         IF AnnIsNone(ann)
         THEN SearchFrom(anns, name, i + 1, out)
         ELSE IF ~ann.exists
         THEN Result(PyNone, PyNone, out, AttributeError)
         ELSE IF NameMatches(ann, name)
         THEN IF LoadRaises(ann)
              THEN OnLoadFailure(anns, name, i, out)
              ELSE Result(Some(TableOf(ann.id)), Some(ann.id), out, NoError)
         ELSE SearchFrom(anns, name, i + 1, out)

get_specific_table(anns, table_name) == SearchFrom(anns, table_name, 1, <<>>)

\* table, file_ann_id = get_specific_table(conn, data_id, table_name); an
\* exception leaves the globals unassigned
TrainingTableCell ==
    /\ notebook = "training"
    /\ pc = "table"
    /\ \E anns \in AnnotationLists :
        /\ annotations' = anns
        /\ LET r == get_specific_table(anns, TableName) IN
             /\ printed' = r.printed
             /\ cellError' = r.error
             /\ IF r.error = NoError
                THEN /\ table' = r.table
                     /\ file_ann_id' = r.ann_id
                     /\ pc' = "done"
                ELSE /\ UNCHANGED <<table, file_ann_id>>
                     /\ pc' = "error"
    /\ UNCHANGED <<notebook, runs, connVars, selVars, msVars, sdVars>>

Next ==
    \/ MicrosamConnectionCell
    \/ StardistConnectionCell
    \/ TrainingConnectionCell
    \/ MicrosamSelectCell
    \/ StardistSelectCell
    \/ TrainingSelectCell
    \/ MicrosamNameCell
    \/ MicrosamConfigCell
    \/ MicrosamBatchCell
    \/ MicrosamRerun
    \/ StardistSetupCell
    \/ StardistImageListCell
    \/ StardistLoopStart
    \/ StardistLoopHead
    \/ StardistSegment
    \/ StardistSaveAttach
    \/ StardistSaveRoi
    \/ StardistMeasure
    \/ StardistPostImageTable
    \/ StardistAggregate
    \/ StardistDeleteAttachmentsCell
    \/ StardistDeleteRoisStart
    \/ StardistDeleteRoisIter
    \/ ServerCompletesDelete
    \/ TrainingTableCell

Spec == Init /\ [][Next]_vars

----------------------------------------------------------------------------
(* Properties of the container-selection cells *)

HandledTypes == {"project", "plate", "dataset", "image"}
DocumentedTypes == {"image", "dataset", "project", "plate", "screen"}

\* A step that is an execution of the container-selection cell of the
\* micro-sam annotation notebook or of the StarDist notebook
SelectionStep ==
    /\ notebook \in {"microsam", "stardist"}
    /\ pc = "select"
    /\ pc' # "select"

\* C1: in the micro-sam annotation notebook the selection cell completes
\* without an error for every documented datatype (image, dataset, project,
\* plate, screen) whose data_id names an existing object.
C1_DocumentedTypesAccepted ==
    [][(SelectionStep /\ notebook = "microsam" /\ datatype' \in DocumentedTypes
            /\ objExists')
        => (pc' # "error" /\ cellError' = NoError)]_vars

\* C2: for the four handled datatypes, a None answer of getObject makes the
\* cell raise ValueError without calling print_object_details; an object makes
\* it call print_object_details exactly once, on that object, and raise nothing.
C2_NoneRaisesObjectPrinted ==
    [][(SelectionStep /\ datatype' \in HandledTypes)
        => IF objExists'
           THEN /\ pc' # "error"
                /\ cellError' = NoError
                /\ printCalls' = Append(printCalls,
                       [obj |-> [type |-> SelectBranch(datatype'), id |-> data_id'],
                        datatype |-> datatype'])
           ELSE /\ pc' = "error"
                /\ cellError'.type = "ValueError"
                /\ printCalls' = printCalls]_vars

\* C2 witness: a plate id the server does not hold stopped the StarDist cell
\* with the not-found ValueError and nothing was printed
C2_Witness ==
    /\ notebook = "stardist"
    /\ pc = "error"
    /\ datatype = "plate"
    /\ ~objExists
    /\ cellError = ValueError("Plate with ID 1 not found")
    /\ printCalls = <<>>
    /\ Len(getObjectCalls) = 1

----------------------------------------------------------------------------
(* Properties of the micro-sam annotation notebook *)

\* C4: every execution of the connection cell prompts for the password.
C4_PasswordPromptedEveryExecution ==
    [][(notebook = "microsam" /\ pc = "connect" /\ pc' # "connect")
        => prompted']_vars

\* C5: local_output_dir passed to process_omero_batch is
\* "./omero_annotations_<trainingset_name>" exactly when read_only_mode is True
\* and trainingset_name is non-empty and "./omero_annotations" otherwise; the
\* directory is created before the call only when read_only_mode is True.
C5_LocalOutputDirAndMakedirs ==
    \A i \in DOMAIN batchCalls :
        LET call == batchCalls[i]
            named == call.read_only_mode /\ call.trainingset_name # ""
        IN  /\ (call.local_output_dir =
                    "./omero_annotations_" \o call.trainingset_name) <=> named
            /\ ~named => call.local_output_dir = "./omero_annotations"
            /\ call.read_only_mode => makedirsCalls = <<call.local_output_dir>>
            /\ ~call.read_only_mode => makedirsCalls = <<>>

\* C5 witness: a batch call in read-only mode with a training-set name, its
\* directory created
C5_Witness ==
    /\ notebook = "microsam"
    /\ Len(batchCalls) = 1
    /\ batchCalls[1].read_only_mode
    /\ batchCalls[1].local_output_dir = "./omero_annotations_training_data_20240529"
    /\ makedirsCalls = <<"./omero_annotations_training_data_20240529">>

----------------------------------------------------------------------------
(* Properties of the StarDist processing loop *)

\* The loop over images has completed: the cell is at, or past, the aggregate
LoopCompleted == notebook = "stardist" /\ pc \in {"aggregate", "done"}

\* C6: when the loop completes over n images exactly n per-image tables have
\* been posted, the i-th attached to object type "Image" with the id of the
\* i-th image and titled Nuclei_measurements_<job_id>_<image id>; every image
\* has exactly one table.
C6_OneTablePerImage ==
    LoopCompleted =>
        LET n == Len(images)
            posts == SubSeq(postTableCalls, 1, n)
        IN  /\ Len(postTableCalls) = n + (IF pc = "done" THEN 1 ELSE 0)
            /\ \A i \in 1..n :
                 /\ posts[i].object_type = "Image"
                 /\ posts[i].object_id = images[i]
                 /\ posts[i].title =
                        "Nuclei_measurements_" \o job_id \o "_" \o ToString(images[i])
                 /\ Cardinality({k \in 1..n : posts[k].object_id = images[i]}) = 1

\* C6 witness: the loop completed over two images, two tables posted
C6_Witness ==
    /\ notebook = "stardist"
    /\ pc = "aggregate"
    /\ Len(images) = 2
    /\ Len(postTableCalls) = 2
    /\ postTableCalls[2].object_id = images[2]

\* Number of rows of the first k per-image tables posted
RECURSIVE RowsBefore(_)
RowsBefore(k) ==
    IF k = 0 THEN 0 ELSE RowsBefore(k - 1) + Len(postTableCalls[k].table)

\* C7: the aggregate table is the per-image tables one after the other in
\* processing order: its row count is the sum of theirs and every row carries
\* in imageID the id of the image it was measured on.
C7_AggregateIsConcatenation ==
    (notebook = "stardist" /\ pc = "done") =>
        LET n == Len(images)
            agg == postTableCalls[Len(postTableCalls)].table
        IN  /\ Len(postTableCalls) = n + 1
            /\ Len(agg) = RowsBefore(n)
            /\ \A i \in 1..n : \A j \in 1..Len(postTableCalls[i].table) :
                 agg[RowsBefore(i - 1) + j] = postTableCalls[i].table[j]
            /\ \A r \in 1..Len(agg) : agg[r].imageID = agg[r].measuredOn

\* C7 witness: an aggregate of two images with one row each
C7_Witness ==
    /\ notebook = "stardist"
    /\ pc = "done"
    /\ Len(images) = 2
    /\ Len(postTableCalls[3].table) = 2
    /\ postTableCalls[3].table[1].imageID # postTableCalls[3].table[2].imageID

\* C8: the aggregate table is attached to the object datatype and data_id
\* selected: the object type matches datatype and the object id is data_id.
C8_AggregateOnSelectedObject ==
    (notebook = "stardist" /\ pc = "done") =>
        LET agg == postTableCalls[Len(postTableCalls)]
        IN  /\ agg.object_type = SelectBranch(datatype)
            /\ agg.object_id = data_id

----------------------------------------------------------------------------
(* Properties of get_specific_table *)

\* The annotation at position i exists, is named table_name and loads
Qualifies(i) ==
    /\ annotations[i].exists
    /\ annotations[i].name = TableName
    /\ annotations[i].loads

\* The cell that calls get_specific_table has run (the selection cell stops
\* the run before any annotation is listed)
TableCellRan ==
    /\ notebook = "training"
    /\ pc = "done" \/ (pc = "error" /\ annotations # <<>>)

\* C9: get_specific_table returns (table, ann_id) of the first annotation, in
\* list order, that exists, is named table_name and loads; (None, None) exactly
\* when there is none; annotations whose object is None are skipped, no error.
C9_FirstQualifyingAnnotation ==
    TableCellRan =>
        LET Q == {i \in DOMAIN annotations : Qualifies(i)}
        IN  /\ pc = "done"
            /\ cellError = NoError
            /\ (Q = {}) <=> (table = PyNone /\ file_ann_id = PyNone)
            /\ Q # {} =>
                 LET first == CHOOSE i \in Q : \A k \in Q : i <= k
                 IN  /\ file_ann_id = {annotations[first].id}
                     /\ table = {[file_ann_id |-> annotations[first].id]}

\* C9 witness: the first annotation is None, a later one is returned
C9_Witness ==
    /\ notebook = "training"
    /\ pc = "done"
    /\ Len(annotations) = 3
    /\ ~annotations[1].exists
    /\ annotations[2].name = "other.csv"
    /\ Qualifies(3)
    /\ file_ann_id = {annotations[3].id}

\* C10: an annotation named table_name that fails to load raises nothing: a
\* message is printed and the search goes on, so that a later annotation of
\* the same name that loads is the one returned.
C10_LoadFailureSkipped ==
    TableCellRan =>
        \A i \in DOMAIN annotations :
            (/\ annotations[i].exists
             /\ annotations[i].name = TableName
             /\ ~annotations[i].loads
             /\ \A k \in 1..(i - 1) : ~Qualifies(k))
            => /\ pc = "done"
               /\ cellError = NoError
               /\ \E m \in DOMAIN printed : printed[m] =
                      "Found file micro_sam_training_data but failed to load as table: "
                          \o ToString(annotations[i].id)
               /\ \A j \in (i + 1)..Len(annotations) :
                      (Qualifies(j) /\ \A k \in (i + 1)..(j - 1) : ~Qualifies(k))
                      => file_ann_id = {annotations[j].id}

\* C10 witness: the first annotation of the name failed to load, the second
\* was returned
C10_Witness ==
    /\ notebook = "training"
    /\ pc = "done"
    /\ Len(annotations) = 2
    /\ annotations[1].name = TableName /\ annotations[1].exists
    /\ ~annotations[1].loads
    /\ Qualifies(2)
    /\ Len(printed) = 1
    /\ file_ann_id = {annotations[2].id}

----------------------------------------------------------------------------
(* Properties of the connection cells *)

\* A step that is an execution of a connection cell in which conn.connect()
\* was called and answered
ConnectAnswered ==
    /\ pc = "connect"
    /\ pc' # "connect"
    /\ Len(connectCalls') = Len(connectCalls) + 1

----------------------------------------------------------------------------
(* Properties of the StarDist processing loop: failure and order *)

\* The statements of the loop body that call the libraries, in source order
LoopSteps ==
    <<"ProcessImage", "segment_nuclei", "save_segmentation_to_omero_as_attach",
      "save_segmentation_to_omero_as_roi", "measure_intensity", "post_table">>

StepIndex(name) == CHOOSE i \in DOMAIN LoopSteps : LoopSteps[i] = name

Logged(step, image) ==
    \E m \in DOMAIN stepLog : stepLog[m] = [step |-> step, image |-> image]

\* A statement of the loop body raised while the image at count was processed
LoopRaised ==
    /\ notebook = "stardist"
    /\ cellError.type = "Exception"
    /\ \E i \in DOMAIN LoopSteps : LoopSteps[i] = cellError.msg

\* C12: if processing of the k-th image raises at any step, the cell stops;
\* the attachments, ROIs and per-image tables of images 1..k-1, and the
\* attachment or ROI already written for image k, stay written; no aggregate
\* table is posted and images k..n have no per-image table.
C12_NoRollbackOnFailure ==
    LoopRaised =>
        LET k == count + 1
            failing == StepIndex(cellError.msg)
        IN  /\ pc = "error"
            /\ k \in 1..Len(images)
            /\ \A i \in 1..(k - 1) :
                 /\ Logged("save_segmentation_to_omero_as_attach", images[i])
                 /\ Logged("save_segmentation_to_omero_as_roi", images[i])
                 /\ Logged("post_table", images[i])
                 /\ postTableCalls[i].object_type = "Image"
                 /\ postTableCalls[i].object_id = images[i]
            /\ failing > 3 => Logged("save_segmentation_to_omero_as_attach", images[k])
            /\ failing > 4 => Logged("save_segmentation_to_omero_as_roi", images[k])
            /\ Len(postTableCalls) = k - 1
            /\ \A j \in k..Len(images) : ~Logged("post_table", images[j])
            /\ ~Logged("post_table_aggregate", 0)

\* C12 witness: the second image raised in measure_intensity; the first
\* image's table and the second image's attachment and ROI are written
C12_Witness ==
    /\ notebook = "stardist"
    /\ pc = "error"
    /\ cellError = [type |-> "Exception", msg |-> "measure_intensity"]
    /\ Len(images) = 2
    /\ count = 1
    /\ Len(postTableCalls) = 1
    /\ Logged("save_segmentation_to_omero_as_roi", images[2])

\* The steps of a complete run over imgs: the six steps of each image, image
\* after image, then the aggregate table
RECURSIVE FullLog(_)
FullLog(imgs) ==
    IF imgs = <<>>
    THEN <<[step |-> "post_table_aggregate", image |-> 0]>>
    ELSE [i \in DOMAIN LoopSteps |-> [step |-> LoopSteps[i], image |-> Head(imgs)]]
         \o FullLog(Tail(imgs))

\* C13: the steps of the loop run in a fixed order, image after image:
\* segment_nuclei, save as attachment, save as ROI, measure_intensity, the
\* per-image post_table; no step of the next image comes before the table of
\* the current one, and the aggregate table comes after the last of them.
C13_StepsInFixedOrder ==
    [][stepLog' # stepLog
        => /\ Len(stepLog') = Len(stepLog) + 1
           /\ Len(stepLog') <= Len(FullLog(images))
           /\ stepLog' = SubSeq(FullLog(images), 1, Len(stepLog'))]_vars

\* C13 witness: a complete run over two images, the aggregate posted last
C13_Witness ==
    /\ notebook = "stardist"
    /\ pc = "done"
    /\ Len(images) = 2
    /\ Len(stepLog) = 13
    /\ stepLog[6] = [step |-> "post_table", image |-> images[1]]
    /\ stepLog[7] = [step |-> "ProcessImage", image |-> images[2]]
    /\ stepLog[13].step = "post_table_aggregate"
----------------------------------------------------------------------------
(* C14 *)

\* The delete-ROIs cell ran its loop to the end
RoiCellFinished == notebook = "stardist" /\ pc = "finished"

\* The requests the delete-ROIs cell issued
RoiRequests == SelectSeq(deleteRequests, LAMBDA r : r.graph = "Roi")

\* C14: when the delete-ROIs cell finishes, one delete request has been
\* issued per image of the dataset, each for the ROIs of that image alone,
\* every request has been carried out, and no ROI of a scanned image is left
\* on the server.
C14_RoisDeletedWhenCellFinishes ==
    RoiCellFinished =>
        /\ Len(RoiRequests) = Len(images)
        /\ \A i \in 1..Len(RoiRequests) :
             /\ \A r \in Range(RoiRequests[i].ids) : r.image = images[i]
             /\ RoiRequests[i].done
        /\ serverRois = {}

\* A run in which the cell has finished while the one ROI of the one image is
\* still on the server, its delete request pending
C14_PendingAtFinish ==
    /\ RoiCellFinished
    /\ Len(images) = 1
    /\ Len(RoiRequests) = 1
    /\ ~RoiRequests[1].done
    /\ serverRois = {[image |-> images[1], roi |-> 1]}

====
